---- MODULE Spec2Model ----
(***************************************************************************)
(* gokvstore: an in-memory key/value map made durable by a snapshot file   *)
(* (gob encoding of the whole map) and a journal file (9-byte header +     *)
(* gob-encoded Tx per record), written through a bufio.Writer.             *)
(*                                                                         *)
(* Files are byte sequences.  A uint32 is the pair <<hi, lo>> of its two   *)
(* 16-bit halves, so that the 32-bit quantities of the frame header keep   *)
(* their width.                                                            *)
(***************************************************************************)
EXTENDS Integers, Sequences, FiniteSets, TLC

\* ------------------------------------------------------------------ bounds
\* Capacity of the journal's bufio.Writer (bufio's default is 4096 bytes; a
\* record of the model is 10 or 11 bytes where a real one is some 50).
BufSize == 10
\* Records appended to one journal file before it is replayed or truncated.
MaxRecs == 2
\* Longest byte slice handed to jDecode when the frame codec is taken alone.
MaxRawLen == 10
\* Calls the goroutines make, all together, when the store is called
\* concurrently.
MaxCalls == 3

Keys == {"foo", "bar"}
Values == {"int1", "strbaz"}
\* The nil interface value (Tx.Value of an Unset record).
NilValue == "nil"

\* ------------------------------------------------------------- frame codec
OpSet == 1
OpUnset == 2
HeaderLen == 9

Min(a, b) == IF a < b THEN a ELSE b

U32(n) == <<n \div 65536, (n % 65536)>>
ToInt(u) == u[1] * 65536 + u[2]

\* binary.BigEndian.PutUint32
PutUint32(u) == <<u[1] \div 256, (u[1] % 256), u[2] \div 256, (u[2] % 256)>>
\* (as Uint32, but the bytes taken in little-endian order)
Uint32LittleEndian(b) == <<b[4] * 256 + b[3], b[2] * 256 + b[1]>>

\* binary.BigEndian.Uint32
Uint32(b) == <<b[1] * 256 + b[2], b[3] * 256 + b[4]>>

jEncode(op, length, crc) == <<op % 256>> \o PutUint32(length) \o PutUint32(crc)

jDecode(buf) ==
    IF Len(buf) # HeaderLen
    THEN [op |-> 0, length |-> U32(0), crc |-> U32(0), err |-> TRUE]
    ELSE [op |-> buf[1], length |-> Uint32(SubSeq(buf, 2, 5)),
          crc |-> Uint32(SubSeq(buf, 6, 9)), err |-> FALSE]

\* ------------------------------------------------------- crc32.ChecksumIEEE
RECURSIVE XorN(_, _, _)
XorN(a, b, n) ==
    IF n = 0 THEN 0
    ELSE (((a % 2) + (b % 2)) % 2) + 2 * XorN(a \div 2, b \div 2, n - 1)

Xor32(u, w) == <<XorN(u[1], w[1], 16), XorN(u[2], w[2], 16)>>

\* The reflected IEEE polynomial 0xEDB88320.
IEEEPoly == <<60856, 33568>>
AllOnes == <<65535, 65535>>

Shr1(u) == <<u[1] \div 2, (u[2] \div 2) + 32768 * (u[1] % 2)>>

RECURSIVE CrcBits(_, _)
CrcBits(c, n) ==
    IF n = 0 THEN c
    ELSE CrcBits(IF (c[2] % 2) = 1 THEN Xor32(Shr1(c), IEEEPoly) ELSE Shr1(c), n - 1)

RECURSIVE CrcUpdate(_, _, _)
CrcUpdate(c, p, i) ==
    IF i > Len(p) THEN c
    ELSE CrcUpdate(CrcBits(Xor32(c, <<0, p[i]>>), 8), p, i + 1)

Crc32(p) == Xor32(CrcUpdate(AllOnes, p, 1), AllOnes)

\* ------------------------------------------------------------------ errors
\* An error is the chain of its messages, outermost first; fmt.Errorf("..: %w")
\* puts a message in front, and errors.Is looks for the target along the chain.
Nil == <<>>
ErrNotReady == <<"kv is not ready">>
ErrJournalCorrupt == <<"journal is corrupt">>
Wrap(msg, err) == <<msg>> \o err
Is(err, target) == \E i \in 1..Len(err) : <<err[i]>> = target

\* --------------------------------------------------------------- kvMap, gob
EmptyMap == [k \in {} |-> NilValue]
MapSet(m, k, v) == [x \in DOMAIN m \cup {k} |-> IF x = k THEN v ELSE m[x]]
MapDelete(m, k) == [x \in DOMAIN m \ {k} |-> m[x]]

\* encoding/gob is self-describing: a value travels with its type.  A key or a
\* value is one byte here, and a nil interface field is left out of a struct.
KeyCode == [k \in Keys |-> IF k = "foo" THEN 102 ELSE 98]
ValCode == [v \in Values |-> IF v = "int1" THEN 2 ELSE 6]
KeyOrder == <<"bar", "foo">>

GobEncodeTx(key, value) ==
    <<KeyCode[key]>> \o (IF value = NilValue THEN <<>> ELSE <<ValCode[value]>>)

GobDecodeTx(buf) ==
    IF /\ Len(buf) \in {1, 2}
       /\ \E k \in Keys : KeyCode[k] = buf[1]
       /\ Len(buf) = 2 => \E v \in Values : ValCode[v] = buf[2]
    THEN [err |-> FALSE,
          Key |-> CHOOSE k \in Keys : KeyCode[k] = buf[1],
          Value |-> IF Len(buf) = 2
                    THEN CHOOSE v \in Values : ValCode[v] = buf[2]
                    ELSE NilValue]
    ELSE [err |-> TRUE, Key |-> "", Value |-> NilValue]

RECURSIVE GobEncodePairs(_, _)
GobEncodePairs(m, i) ==
    IF i > Len(KeyOrder) THEN <<>>
    ELSE (IF KeyOrder[i] \in DOMAIN m
          THEN <<KeyCode[KeyOrder[i]], ValCode[m[KeyOrder[i]]]>>
          ELSE <<>>) \o GobEncodePairs(m, i + 1)

\* The whole map: the number of entries, then each key and value.
GobEncodeMap(m) == <<Cardinality(DOMAIN m)>> \o GobEncodePairs(m, 1)

RECURSIVE GobDecodePairs(_, _, _)
GobDecodePairs(b, i, m) ==
    IF i > Len(b) THEN [err |-> FALSE, m |-> m]
    ELSE IF /\ \E k \in Keys : KeyCode[k] = b[i]
            /\ \E v \in Values : ValCode[v] = b[i + 1]
         THEN GobDecodePairs(b, i + 2,
                  MapSet(m, CHOOSE k \in Keys : KeyCode[k] = b[i],
                            CHOOSE v \in Values : ValCode[v] = b[i + 1]))
         ELSE [err |-> TRUE, m |-> EmptyMap]

GobDecodeMap(b) ==
    IF Len(b) = 0 \/ Len(b) # 1 + 2 * b[1]
    THEN [err |-> TRUE, m |-> EmptyMap]
    ELSE GobDecodePairs(b, 2, EmptyMap)

\* crc32.ChecksumIEEE; the checksums of the payloads the store itself writes
\* are computed once.
TxPayloads == {GobEncodeTx(k, v) : k \in Keys, v \in Values \cup {NilValue}}

\* What is added to a payload byte that is altered in the file: it turns the
\* key "bar" into "foo" and the value int1 into strbaz (another well-formed
\* payload), and "foo" and strbaz into bytes that stand for nothing.
TamperDeltas == {4}
Altered(p) == {[p EXCEPT ![i] = (@ + d) % 256] : i \in 1..Len(p), d \in TamperDeltas}
KnownPayloads == TxPayloads \cup UNION {Altered(p) : p \in TxPayloads}

Crc32Table == [p \in KnownPayloads |-> Crc32(p)]

\* (as ChecksumIEEE, but taken over a buffer that was never filled)
ChecksumOfNothing(p) == Crc32(<<>>)

ChecksumIEEE(p) == IF p \in KnownPayloads THEN Crc32Table[p] ELSE Crc32(p)

\* ----------------------------------------------------------- snapshot store
loadFromGob(db) ==
    LET d == GobDecodeMap(db)
    IN IF d.err THEN [memory |-> EmptyMap, err |-> <<"decoding map", "gob">>]
       ELSE [memory |-> d.m, err |-> Nil]

createEmptyGob == GobEncodeMap(EmptyMap)

\* ------------------------------------------------------------ bufio.Writer
\* A write to the file: all of p, or (the write failing) nothing of it.
FileWrite(file, p, wok) ==
    IF wok THEN [file |-> file \o p, n |-> Len(p), err |-> FALSE]
    ELSE [file |-> file, n |-> 0, err |-> TRUE]

NewWriter == [buf |-> <<>>, err |-> FALSE]
Available(bw) == BufSize - Len(bw.buf)

\* bufio.Writer.Flush: the error of a failed write stays in the writer.
BufFlush(bw, file, wok) ==
    IF bw.err THEN [bw |-> bw, file |-> file, err |-> TRUE]
    ELSE IF Len(bw.buf) = 0 THEN [bw |-> bw, file |-> file, err |-> FALSE]
    ELSE LET w == FileWrite(file, bw.buf, wok)
         IN IF w.err
            THEN [bw |-> [buf |-> SubSeq(bw.buf, w.n + 1, Len(bw.buf)), err |-> TRUE],
                  file |-> w.file, err |-> TRUE]
            ELSE [bw |-> [buf |-> <<>>, err |-> FALSE], file |-> w.file, err |-> FALSE]

\* bufio.Writer.Write: while p does not fit, fill the buffer and flush it (or,
\* the buffer being empty, write p straight to the file); then buffer the rest.
RECURSIVE BufWrite(_, _, _, _, _)
BufWrite(bw, file, p, nn, wok) ==
    IF Len(p) > Available(bw) /\ ~bw.err
    THEN IF Len(bw.buf) = 0
         THEN LET w == FileWrite(file, p, wok)
              IN BufWrite([bw EXCEPT !.err = w.err], w.file,
                          SubSeq(p, w.n + 1, Len(p)), nn + w.n, wok)
         ELSE LET n == Available(bw)
                  f == BufFlush([bw EXCEPT !.buf = bw.buf \o SubSeq(p, 1, n)], file, wok)
              IN BufWrite(f.bw, f.file, SubSeq(p, n + 1, Len(p)), nn + n, wok)
    ELSE IF bw.err THEN [bw |-> bw, file |-> file, nn |-> nn, err |-> TRUE]
    ELSE [bw |-> [bw EXCEPT !.buf = bw.buf \o p], file |-> file,
          nn |-> nn + Len(p), err |-> FALSE]

\* ----------------------------------------------------------------- journal
\* A journal value: the file handle (open or closed) and its buffered writer.
\* Every operation takes the journal file's bytes and gives them back.
WriteOk(j, diskOk) == diskOk /\ j.fh = "open"

\* journal.log
log(j, file, op, key, value, diskOk) ==
    LET buf == GobEncodeTx(key, value)
        buflen == U32(Len(buf))
        checksum == ChecksumIEEE(buf)
        header == jEncode(op, buflen, checksum)
        w1 == BufWrite(j.bufWriter, file, header, 0, WriteOk(j, diskOk))
        w2 == BufWrite(w1.bw, w1.file, buf, 0, WriteOk(j, diskOk))
    IN IF w1.err
       THEN [j |-> [j EXCEPT !.bufWriter = w1.bw], file |-> w1.file,
             err |-> <<"write header", "io">>]
       ELSE IF w1.nn # HeaderLen
       THEN [j |-> [j EXCEPT !.bufWriter = w1.bw], file |-> w1.file,
             err |-> <<"header write: expected 9 bytes">>]
       ELSE IF w2.err
       THEN [j |-> [j EXCEPT !.bufWriter = w2.bw], file |-> w2.file,
             err |-> <<"write buffer", "io">>]
       ELSE IF w2.nn # ToInt(buflen)
       THEN [j |-> [j EXCEPT !.bufWriter = w2.bw], file |-> w2.file,
             err |-> <<"buffer write: expected bytes">>]
       ELSE [j |-> [j EXCEPT !.bufWriter = w2.bw], file |-> w2.file, err |-> Nil]

\* journal.flush
flush(j, file, diskOk) ==
    LET f == BufFlush(j.bufWriter, file, WriteOk(j, diskOk))
    IN [j |-> [j EXCEPT !.bufWriter = f.bw], file |-> f.file,
        err |-> IF f.err THEN <<"flush", "io">> ELSE Nil]

\* journal.close
close(j, file, diskOk) ==
    LET f == flush(j, file, diskOk)
    IN IF f.err # Nil
       THEN [j |-> f.j, file |-> f.file, err |-> Wrap("flush journal", f.err)]
       ELSE IF f.j.fh # "open"
       THEN [j |-> f.j, file |-> f.file, err |-> <<"close journal", "file already closed">>]
       ELSE [j |-> [f.j EXCEPT !.fh = "closed"], file |-> f.file, err |-> Nil]

\* (as journal.truncate, but the file is reopened without being emptied)
truncateKeepsBytes(j, file, diskOk) ==
    LET c == close(j, file, diskOk)
    IN IF c.err # Nil
       THEN [j |-> c.j, file |-> c.file, err |-> Wrap("close", c.err)]
       ELSE [j |-> [fh |-> "open", bufWriter |-> NewWriter], file |-> c.file, err |-> Nil]

\* journal.truncate
truncate(j, file, diskOk) ==
    LET c == close(j, file, diskOk)
    IN IF c.err # Nil
       THEN [j |-> c.j, file |-> c.file, err |-> Wrap("close", c.err)]
       ELSE [j |-> [fh |-> "open", bufWriter |-> NewWriter], file |-> <<>>, err |-> Nil]

\* play: replay the records of the journal file onto the map m.
RECURSIVE playFrom(_, _, _)
playFrom(file, pos, m) ==
    LET rest == Len(file) - pos
        header == SubSeq(file, pos + 1, pos + HeaderLen)
        h == jDecode(header)
        buflen == ToInt(h.length)
        n == Min(buflen, rest - HeaderLen)
        buf == SubSeq(file, pos + HeaderLen + 1, pos + HeaderLen + n)
        tx == GobDecodeTx(buf)
    IN IF rest = 0 THEN [m |-> m, err |-> Nil]
       ELSE IF rest < HeaderLen
       THEN [m |-> m, err |-> <<"read header: expected 9 bytes">>]
       ELSE IF h.err THEN [m |-> m, err |-> <<"decode header", "expected 9 bytes">>]
       ELSE IF buflen > 0 /\ n = 0 THEN [m |-> m, err |-> <<"read buffer", "EOF">>]
       ELSE IF n # buflen THEN [m |-> m, err |-> <<"read buffer: expected bytes">>]
       ELSE IF ChecksumIEEE(buf) # h.crc THEN [m |-> m, err |-> ErrJournalCorrupt]
       ELSE IF tx.err THEN [m |-> m, err |-> <<"decode tx", "gob">>]
       ELSE playFrom(file, pos + HeaderLen + n,
                     IF h.op = OpSet THEN MapSet(m, tx.Key, tx.Value)
                     ELSE IF h.op = OpUnset THEN MapDelete(m, tx.Key)
                     ELSE m)

play(file, m) == playFrom(file, 0, m)

\* (as newJournal, but the file is created anew before it is replayed)
newJournalCreatesFirst(walExists, wal, m) ==
    LET p == IF walExists THEN play(wal, m) ELSE [m |-> m, err |-> Nil]
    IN IF p.err # Nil
       THEN [err |-> Wrap("play", p.err), m |-> p.m, walExists |-> TRUE, wal |-> <<>>]
       ELSE [err |-> Nil, m |-> p.m, walExists |-> TRUE, wal |-> <<>>]

\* newJournal: replay the file if there is one, then create it anew.
newJournal(walExists, wal, m) ==
    LET p == IF walExists THEN play(wal, m) ELSE [m |-> m, err |-> Nil]
    IN IF p.err # Nil
       THEN [err |-> Wrap("play", p.err), m |-> p.m, walExists |-> walExists, wal |-> wal]
       ELSE [err |-> Nil, m |-> p.m, walExists |-> TRUE, wal |-> <<>>]

\* New: what it returns and what it leaves in the two files.
New(dbExists, db, walExists, wal) ==
    LET l == IF dbExists THEN loadFromGob(db) ELSE [memory |-> EmptyMap, err |-> Nil]
        db1 == IF dbExists THEN db ELSE createEmptyGob
        j == newJournal(walExists, wal, l.memory)
    IN IF l.err # Nil
       THEN [ok |-> FALSE, err |-> Wrap("loading from existing gob", l.err),
             memory |-> EmptyMap, dbExists |-> dbExists, db |-> db,
             walExists |-> walExists, wal |-> wal]
       ELSE IF j.err # Nil
       THEN [ok |-> FALSE, err |-> Wrap("creating journal", j.err),
             memory |-> EmptyMap, dbExists |-> TRUE, db |-> db1,
             walExists |-> j.walExists, wal |-> j.wal]
       ELSE [ok |-> TRUE, err |-> Nil, memory |-> j.m, dbExists |-> TRUE, db |-> db1,
             walExists |-> TRUE, wal |-> j.wal]

\* dump: the snapshot file rewritten with the encoding of the map.
dump(memory) == GobEncodeMap(memory)

\* =================================================================== state
VARIABLES
    dbExists, dbFile,     \* the snapshot file: whether it exists, its bytes
    walExists, walFile,   \* the journal file: whether it exists, its bytes
    life,                 \* the store New last returned: "none", "open" (in use),
                          \* "closed" (Close returned nil), "crashed" (process gone)
    ready,                \* kv.ready
    memory,               \* kv.memory
    mu,                   \* kv.mu: "free" or "held"
    journal,              \* kv.journal: [fh, bufWriter]
    hung,                 \* the caller is blocked in kv.mu.Lock() for good
    ret,                  \* the last call and what it returned
    hist,                 \* the journal.log calls made on the current journal file
    coalesced,            \* a Coalesce rewrote the snapshot and left the journal as it was
    tampered,             \* a payload byte of the journal file was altered
    codec,                \* the frame codec taken alone: input, bytes, output
    thr                   \* the goroutines calling the store at the same time:
                          \* where each is in its call, the call, what it returned

vars == <<dbExists, dbFile, walExists, walFile, life, ready, memory, mu, journal,
          hung, ret, hist, coalesced, tampered, codec, thr>>

disk == <<dbExists, dbFile, walExists, walFile>>

NoJournal == [fh |-> "closed", bufWriter |-> NewWriter]
CodecIdle == [pc |-> "idle", op |-> 0, length |-> U32(0), crc |-> U32(0),
              buf |-> <<>>, out |-> jDecode(<<>>)]

\* The goroutines that call the store at the same time.
Threads == {"g1", "g2"}
\* A goroutine that is in no call: its last call (none yet) and its result.
ThreadIdle == [pc |-> "idle", op |-> "none", key |-> "", value |-> NilValue,
               late |-> FALSE, n |-> 0, err |-> Nil]

Ret(op, key, value, ok, err, logged, blocked) ==
    [op |-> op, key |-> key, value |-> value, ok |-> ok, err |-> err,
     logged |-> logged, blocked |-> blocked]

Init ==
    /\ dbExists = FALSE /\ dbFile = <<>>
    /\ walExists = FALSE /\ walFile = <<>>
    /\ life = "none" /\ ready = FALSE
    /\ memory = EmptyMap
    /\ mu = "free"
    /\ journal = NoJournal
    /\ hung = FALSE
    /\ ret = Ret("none", "", NilValue, FALSE, Nil, Nil, FALSE)
    /\ hist = <<>>
    /\ coalesced = FALSE
    /\ tampered = FALSE
    /\ codec = CodecIdle
    /\ thr = [t \in Threads |-> ThreadIdle]

\* A call on the handle: the caller holds one and is not blocked in an
\* earlier call (and makes none between an alteration of the journal file
\* and the New that follows it).
CanCall == life \in {"open", "closed"} /\ ~hung /\ ~tampered

NotReady(op, key) ==
    /\ ~ready
    /\ ret' = Ret(op, "", NilValue, FALSE, ErrNotReady, Nil, FALSE)
    /\ UNCHANGED <<disk, life, ready, memory, mu, journal, hung, hist, coalesced, tampered, codec, thr>>

\* kv.mu.Lock() on a mutex that nobody will unlock: the call never returns.
Blocked(op, key) ==
    /\ hung' = TRUE
    /\ ret' = Ret(op, "", NilValue, FALSE, Nil, Nil, TRUE)

Entry(op, key, value, err) ==
    [op |-> op, key |-> key, value |-> value, ok |-> err = Nil, flushed |-> FALSE]

\* --------------------------------------------------------------------- New
\* Called when no store is open on the files: at the start, after Close, or
\* after the process that held the store has stopped.
Open ==
    /\ life # "open"
    /\ LET n == New(dbExists, dbFile, walExists, walFile)
       IN /\ dbExists' = n.dbExists /\ dbFile' = n.db
          /\ walExists' = n.walExists /\ walFile' = n.wal
          /\ life' = (IF n.ok THEN "open" ELSE life) /\ ready' = n.ok
          /\ memory' = (IF n.ok THEN n.memory ELSE memory)
          /\ journal' = IF n.ok THEN [fh |-> "open", bufWriter |-> NewWriter]
                        ELSE journal
          /\ hist' = IF n.ok THEN <<>> ELSE hist
          /\ coalesced' = IF n.ok THEN FALSE ELSE coalesced
          /\ tampered' = IF n.ok THEN FALSE ELSE tampered
          /\ ret' = Ret("New", "", NilValue, n.ok, n.err, Nil, FALSE)
          /\ mu' = (IF n.ok THEN "free" ELSE mu)
    /\ UNCHANGED <<hung, codec, thr>>

\* --------------------------------------------------------------------- Set
\* (as SetReady, but a failed append undoes the write to the map)
SetRollsBack(key, value, diskOk) ==
    /\ Len(hist) < MaxRecs
    /\ LET l == log(journal, walFile, OpSet, key, value, diskOk)
       IN /\ memory' = IF l.err = Nil THEN MapSet(memory, key, value) ELSE memory
          /\ journal' = l.j
          /\ walFile' = l.file
          /\ hist' = Append(hist, Entry(OpSet, key, value, l.err))
          /\ ret' = Ret("Set", key, value, TRUE, Nil, l.err, FALSE)
    /\ UNCHANGED <<dbExists, dbFile, walExists, life, ready, mu, hung,
                   coalesced, tampered, codec, thr>>

\* Past the readiness check, the mutex free: the map is written under the
\* mutex, the record is logged after it is released, and the error of the log
\* is printed, not returned.
SetReady(key, value, diskOk) ==
    /\ Len(hist) < MaxRecs
    /\ LET l == log(journal, walFile, OpSet, key, value, diskOk)
       IN /\ memory' = MapSet(memory, key, value)
          /\ journal' = l.j
          /\ walFile' = l.file
          /\ hist' = Append(hist, Entry(OpSet, key, value, l.err))
          /\ ret' = Ret("Set", key, value, TRUE, Nil, l.err, FALSE)
    /\ UNCHANGED <<dbExists, dbFile, walExists, life, ready, mu, hung,
                   coalesced, tampered, codec, thr>>

Set(key, value, diskOk) ==
    /\ CanCall
    /\ \/ NotReady("Set", key)
       \/ /\ ready /\ mu = "held"
          /\ Blocked("Set", key)
          /\ UNCHANGED <<disk, life, ready, memory, mu, journal, hist, coalesced,
                         tampered, codec, thr>>
       \/ /\ ready /\ mu = "free"
          /\ SetReady(key, value, diskOk)

\* ------------------------------------------------------------------- Unset
\* (as UnsetAbsent, but the deletion of the absent key is logged all the same)
UnsetAbsentLogged(key) ==
    /\ Len(hist) < MaxRecs
    /\ LET l == log(journal, walFile, OpUnset, key, NilValue, TRUE)
       IN /\ journal' = l.j
          /\ walFile' = l.file
          /\ hist' = Append(hist, Entry(OpUnset, key, NilValue, l.err))
    /\ mu' = "held"
    /\ ret' = Ret("Unset", key, NilValue, TRUE, Nil, Nil, FALSE)
    /\ UNCHANGED <<dbExists, dbFile, walExists, life, ready, memory, hung,
                   coalesced, tampered, codec, thr>>

\* The key is absent: the call returns (true, nil) with the mutex still held.
UnsetAbsent(key) ==
    /\ mu' = "held"
    /\ ret' = Ret("Unset", key, NilValue, TRUE, Nil, Nil, FALSE)
    /\ UNCHANGED <<disk, life, ready, memory, journal, hung, hist, coalesced,
                   tampered, codec, thr>>

\* The key is present: the mutex is released and an Unset record is logged;
\* kv.memory is not written.
UnsetPresent(key, diskOk) ==
    /\ Len(hist) < MaxRecs
    /\ LET l == log(journal, walFile, OpUnset, key, NilValue, diskOk)
       IN /\ journal' = l.j
          /\ walFile' = l.file
          /\ hist' = Append(hist, Entry(OpUnset, key, NilValue, l.err))
          /\ ret' = Ret("Unset", key, NilValue, TRUE,
                        IF l.err # Nil THEN Wrap("journaling", l.err) ELSE Nil,
                        l.err, FALSE)
    /\ memory' = memory
    /\ UNCHANGED <<dbExists, dbFile, walExists, life, ready, mu, hung,
                   coalesced, tampered, codec, thr>>

Unset(key, diskOk) ==
    /\ CanCall
    /\ \/ NotReady("Unset", key)
       \/ /\ ready /\ mu = "held"
          /\ Blocked("Unset", key)
          /\ UNCHANGED <<disk, life, ready, memory, mu, journal, hist, coalesced,
                         tampered, codec, thr>>
       \/ /\ ready /\ mu = "free" /\ key \notin DOMAIN memory
          /\ UnsetAbsent(key)
       \/ /\ ready /\ mu = "free" /\ key \in DOMAIN memory
          /\ UnsetPresent(key, diskOk)

\* --------------------------------------------------------------------- Get
Get(key) ==
    /\ CanCall
    /\ \/ NotReady("Get", key)
       \/ /\ ready /\ mu = "held"
          /\ Blocked("Get", key)
          /\ UNCHANGED <<disk, life, ready, memory, mu, journal, hist, coalesced,
                         tampered, codec, thr>>
       \/ /\ ready /\ mu = "free"
          /\ ret' = Ret("Get", key,
                        IF key \in DOMAIN memory THEN memory[key] ELSE NilValue,
                        key \in DOMAIN memory, Nil, Nil, FALSE)
          /\ UNCHANGED <<disk, life, ready, memory, mu, journal, hung, hist,
                         coalesced, tampered, codec, thr>>

\* ------------------------------------------------------------------- Flush
MarkFlushed(h) == [i \in 1..Len(h) |-> [h[i] EXCEPT !.flushed = TRUE]]

\* The buffered writer is flushed before the mutex is taken.
Flush(diskOk) ==
    /\ CanCall
    /\ \/ NotReady("Flush", "")
       \/ /\ ready
          /\ LET f == BufFlush(journal.bufWriter, walFile, WriteOk(journal, diskOk))
             IN /\ journal' = [journal EXCEPT !.bufWriter = f.bw]
                /\ walFile' = f.file
                /\ IF f.err
                   THEN /\ ret' = Ret("Flush", "", NilValue, FALSE,
                                      <<"flush", "io">>, Nil, FALSE)
                        /\ UNCHANGED <<hung, hist>>
                   ELSE IF mu = "held"
                   THEN Blocked("Flush", "") /\ UNCHANGED hist
                   ELSE /\ ret' = Ret("Flush", "", NilValue, TRUE, Nil, Nil, FALSE)
                        /\ hist' = MarkFlushed(hist)
                        /\ UNCHANGED hung
          /\ UNCHANGED <<dbExists, dbFile, walExists, life, ready, memory, mu,
                         coalesced, tampered, codec, thr>>

\* ---------------------------------------------------------------- Coalesce
Coalesce(diskOk) ==
    /\ CanCall
    /\ \/ NotReady("Coalesce", "")
       \/ /\ ready /\ mu = "held"
          /\ Blocked("Coalesce", "")
          /\ UNCHANGED <<disk, life, ready, memory, mu, journal, hist, coalesced,
                         tampered, codec, thr>>
       \/ /\ ready /\ mu = "free"
          /\ LET t == truncate(journal, walFile, diskOk)
             IN /\ dbFile' = dump(memory)
                /\ journal' = t.j
                /\ walFile' = t.file
                /\ hist' = IF t.err = Nil THEN <<>> ELSE hist
                /\ coalesced' = (t.err # Nil)
                /\ ret' = Ret("Coalesce", "", NilValue, t.err = Nil,
                              IF t.err # Nil THEN Wrap("truncating journal", t.err)
                              ELSE Nil, Nil, FALSE)
          /\ UNCHANGED <<dbExists, walExists, life, ready, memory, mu, hung,
                         tampered, codec, thr>>

\* ------------------------------------------------------------------- Close
\* (as CloseReady, but kv.ready is left set)
CloseStaysReady(diskOk) ==
    /\ LET c == close(journal, walFile, diskOk)
       IN /\ journal' = c.j
          /\ walFile' = c.file
          /\ life' = IF c.err = Nil THEN "closed" ELSE life
          /\ ret' = Ret("Close", "", NilValue, c.err = Nil,
                        IF c.err # Nil THEN Wrap("closing journal", c.err)
                        ELSE Nil, Nil, FALSE)
    /\ UNCHANGED <<dbExists, dbFile, walExists, ready, memory, mu, hung, hist,
                   coalesced, tampered, codec, thr>>

\* Past the readiness check, the mutex free: the journal is closed and, if
\* that went well, kv.ready is cleared.
CloseReady(diskOk) ==
    /\ LET c == close(journal, walFile, diskOk)
       IN /\ journal' = c.j
          /\ walFile' = c.file
          /\ ready' = (c.err # Nil)
          /\ life' = IF c.err = Nil THEN "closed" ELSE life
          /\ ret' = Ret("Close", "", NilValue, c.err = Nil,
                        IF c.err # Nil THEN Wrap("closing journal", c.err)
                        ELSE Nil, Nil, FALSE)
    /\ UNCHANGED <<dbExists, dbFile, walExists, memory, mu, hung, hist,
                   coalesced, tampered, codec, thr>>

Close(diskOk) ==
    /\ CanCall
    /\ \/ NotReady("Close", "")
       \/ /\ ready /\ mu = "held"
          /\ Blocked("Close", "")
          /\ UNCHANGED <<disk, life, ready, memory, mu, journal, hist, coalesced,
                         tampered, codec, thr>>
       \/ /\ ready /\ mu = "free"
          /\ CloseReady(diskOk)

\* ------------------------------------------------------------- environment
\* The process stops while the store is open: what the buffered writer holds
\* is lost, the two files stay as they are.
Crash ==
    /\ life = "open"
    /\ life' = "crashed" /\ ready' = FALSE
    /\ memory' = EmptyMap
    /\ mu' = "free" /\ hung' = FALSE
    /\ journal' = NoJournal
    /\ ret' = Ret("Crash", "", NilValue, FALSE, Nil, Nil, FALSE)
    /\ UNCHANGED <<disk, hist, coalesced, tampered, codec, thr>>

\* The process stops inside Coalesce, the mutex taken: when dump has created
\* the snapshot file anew and written nothing to it yet ("created"), or when
\* dump is done and truncate has not begun ("dumped").
CoalesceCrash(point) ==
    /\ CanCall /\ ready /\ mu = "free"
    /\ dbFile' = IF point = "created" THEN <<>> ELSE dump(memory)
    /\ life' = "crashed" /\ ready' = FALSE
    /\ memory' = EmptyMap
    /\ hung' = FALSE
    /\ journal' = NoJournal
    /\ coalesced' = TRUE
    /\ ret' = Ret("CoalesceCrash", point, NilValue, FALSE, Nil, Nil, FALSE)
    /\ UNCHANGED <<dbExists, walExists, walFile, mu, hist, tampered, codec, thr>>

\* The byte positions of the journal file that hold the payload of a record
\* that is in the file whole.
RECURSIVE PayloadBytes(_, _)
PayloadBytes(file, pos) ==
    IF Len(file) - pos < HeaderLen THEN {}
    ELSE LET n == ToInt(jDecode(SubSeq(file, pos + 1, pos + HeaderLen)).length)
         IN IF Len(file) - pos - HeaderLen < n THEN {}
            ELSE ((pos + HeaderLen + 1)..(pos + HeaderLen + n))
                 \cup PayloadBytes(file, pos + HeaderLen + n)

\* Once the store has stopped (Close, or the process gone) and before the
\* next New, something alters one payload byte of the journal file.
Tamper ==
    /\ life \in {"closed", "crashed"} /\ ret.op \in {"Close", "Crash"}
    /\ walExists /\ ~tampered
    /\ \E i \in PayloadBytes(walFile, 0), d \in TamperDeltas :
           walFile' = [walFile EXCEPT ![i] = (@ + d) % 256]
    /\ tampered' = TRUE
    /\ ret' = Ret("Tamper", "", NilValue, FALSE, Nil, Nil, FALSE)
    /\ UNCHANGED <<dbExists, dbFile, walExists, life, ready, memory, mu, journal,
                   hung, hist, coalesced, codec, thr>>

Next ==
    \/ Open
    \/ Tamper
    \/ \E k \in Keys, v \in Values, d \in BOOLEAN : Set(k, v, d)
    \/ \E k \in Keys, d \in BOOLEAN : Unset(k, d)
    \/ \E k \in Keys : Get(k)
    \/ \E d \in BOOLEAN : Flush(d)
    \/ \E d \in BOOLEAN : Coalesce(d)
    \/ \E d \in BOOLEAN : Close(d)
    \/ Crash
    \/ \E point \in {"created", "dumped"} : CoalesceCrash(point)

Spec == Init /\ [][Next]_vars

\* ================================================= the frame codec taken alone
\* jEncode and jDecode are pure: the inputs are drawn at the start, and the
\* steps apply the functions to them.
CodecOps == {0, OpSet, OpUnset, 255}
CodecHalves == {0, 42, 2424, 65535}
CodecWords == {<<h, l>> : h \in CodecHalves, l \in CodecHalves}
RawInputs == {[i \in 1..n |-> b] : n \in 0..MaxRawLen, b \in {0, 255}}

InitCodec ==
    /\ dbExists = FALSE /\ dbFile = <<>>
    /\ walExists = FALSE /\ walFile = <<>>
    /\ life = "none" /\ ready = FALSE
    /\ memory = EmptyMap
    /\ mu = "free"
    /\ journal = NoJournal
    /\ hung = FALSE
    /\ ret = Ret("none", "", NilValue, FALSE, Nil, Nil, FALSE)
    /\ hist = <<>>
    /\ coalesced = FALSE
    /\ tampered = FALSE
    /\ thr = [t \in Threads |-> ThreadIdle]
    /\ \E op \in CodecOps, length \in CodecWords, crc \in CodecWords, raw \in RawInputs :
           codec = [pc |-> "input", op |-> op, length |-> length, crc |-> crc,
                    buf |-> raw, out |-> jDecode(<<>>)]

\* header := jEncode(op, length, crc)
Encode ==
    /\ codec.pc = "input"
    /\ codec' = [codec EXCEPT !.pc = "encoded",
                              !.buf = jEncode(codec.op, codec.length, codec.crc)]
    /\ UNCHANGED <<disk, life, ready, memory, mu, journal, hung, ret, hist,
                   coalesced, tampered, thr>>

\* op, length, crc, err := jDecode(header)
Decode ==
    /\ codec.pc = "encoded"
    /\ codec' = [codec EXCEPT !.pc = "decoded", !.out = jDecode(codec.buf)]
    /\ UNCHANGED <<disk, life, ready, memory, mu, journal, hung, ret, hist,
                   coalesced, tampered, thr>>

\* jDecode of a byte slice that jEncode did not make.
DecodeRaw ==
    /\ codec.pc = "input"
    /\ codec' = [codec EXCEPT !.pc = "raw", !.out = jDecode(codec.buf)]
    /\ UNCHANGED <<disk, life, ready, memory, mu, journal, hung, ret, hist,
                   coalesced, tampered, thr>>

NextCodec == Encode \/ Decode \/ DecodeRaw

SpecCodec == InitCodec /\ [][NextCodec]_vars

\* ============================================ the store called concurrently
\* Goroutines call the methods of one open store.  A step is one access to
\* what they share: the load of kv.ready, a critical section of kv.mu, one
\* call of the buffered writer.  The buffered writer is used without the
\* mutex by journal.log and KV.Flush; the steps below are the interleavings
\* in which each of its calls runs whole.

\* journal.log, up to the write of the header.
logHeader(j, file, op, key, value, diskOk) ==
    LET buf == GobEncodeTx(key, value)
        header == jEncode(op, U32(Len(buf)), ChecksumIEEE(buf))
        w == BufWrite(j.bufWriter, file, header, 0, WriteOk(j, diskOk))
    IN [j |-> [j EXCEPT !.bufWriter = w.bw], file |-> w.file,
        err |-> IF w.err THEN <<"write header", "io">>
                ELSE IF w.nn # HeaderLen THEN <<"header write: expected 9 bytes">>
                ELSE Nil]

\* journal.log, from the write of the payload.
logPayload(j, file, key, value, diskOk) ==
    LET buf == GobEncodeTx(key, value)
        w == BufWrite(j.bufWriter, file, buf, 0, WriteOk(j, diskOk))
    IN [j |-> [j EXCEPT !.bufWriter = w.bw], file |-> w.file,
        err |-> IF w.err THEN <<"write buffer", "io">>
                ELSE IF w.nn # Len(buf) THEN <<"buffer write: expected bytes">>
                ELSE Nil]

\* The store as New leaves it on two files that did not exist.
InitConc ==
    LET n == New(FALSE, <<>>, FALSE, <<>>)
    IN /\ dbExists = n.dbExists /\ dbFile = n.db
       /\ walExists = n.walExists /\ walFile = n.wal
       /\ life = "open" /\ ready = TRUE
       /\ memory = n.memory
       /\ mu = "free"
       /\ journal = [fh |-> "open", bufWriter |-> NewWriter]
       /\ hung = FALSE
       /\ ret = Ret("New", "", NilValue, TRUE, Nil, Nil, FALSE)
       /\ hist = <<>>
       /\ coalesced = FALSE
       /\ tampered = FALSE
       /\ codec = CodecIdle
       /\ thr = [t \in Threads |-> ThreadIdle]

FirstStep == [Set |-> "setLock", Unset |-> "unsetLock", Get |-> "getLock",
              Flush |-> "flush", Coalesce |-> "coLock", Close |-> "clLock"]

\* The calls the goroutines of S have made.
RECURSIVE CallsMade(_)
CallsMade(S) ==
    IF S = {} THEN 0
    ELSE LET t == CHOOSE x \in S : TRUE IN thr[t].n + CallsMade(S \ {t})

\* The call returns err to the goroutine t.
Return(t, err) == [thr EXCEPT ![t].pc = "idle", ![t].err = err]

\* The goroutine t calls a method: the load of kv.ready that every method
\* starts with, and the return of ErrNotReady when it is false.
Begin(t, op, key, value) ==
    /\ thr[t].pc = "idle" /\ CallsMade(Threads) < MaxCalls
    /\ thr' = [thr EXCEPT ![t] =
                 [pc |-> IF ready THEN FirstStep[op] ELSE "idle",
                  op |-> op, key |-> key, value |-> value, late |-> FALSE,
                  n |-> @.n + 1,
                  err |-> IF ready THEN Nil ELSE ErrNotReady]]
    /\ UNCHANGED <<disk, life, ready, memory, mu, journal, hung, ret, hist,
                   coalesced, tampered, codec>>

\* (as SetCritical, but kv.ready is looked at again under the mutex)
SetCriticalRechecks(t) ==
    /\ thr[t].pc = "setLock" /\ mu = "free"
    /\ IF ready
       THEN /\ memory' = MapSet(memory, thr[t].key, thr[t].value)
            /\ thr' = [thr EXCEPT ![t].pc = "logHeader"]
       ELSE /\ memory' = memory
            /\ thr' = Return(t, ErrNotReady)
    /\ UNCHANGED <<disk, life, ready, mu, journal, hung, ret, hist,
                   coalesced, tampered, codec>>

\* Set: kv.mu.Lock(); kv.memory[key] = value; kv.mu.Unlock()
SetCritical(t) ==
    /\ thr[t].pc = "setLock" /\ mu = "free"
    /\ memory' = MapSet(memory, thr[t].key, thr[t].value)
    /\ thr' = [thr EXCEPT ![t].pc = "logHeader", ![t].late = ~ready]
    /\ UNCHANGED <<disk, life, ready, mu, journal, hung, ret, hist,
                   coalesced, tampered, codec>>

\* Unset: kv.mu.Lock(); the look-up; the return with the mutex held when the
\* key is absent, kv.mu.Unlock() when it is there.
UnsetCritical(t) ==
    /\ thr[t].pc = "unsetLock" /\ mu = "free"
    /\ IF thr[t].key \in DOMAIN memory
       THEN /\ thr' = [thr EXCEPT ![t].pc = "logHeader"]
            /\ mu' = mu
       ELSE /\ thr' = Return(t, Nil)
            /\ mu' = "held"
    /\ UNCHANGED <<disk, life, ready, memory, journal, hung, ret, hist,
                   coalesced, tampered, codec>>

\* Get: the look-up under the mutex.
GetCritical(t) ==
    /\ thr[t].pc = "getLock" /\ mu = "free"
    /\ thr' = Return(t, Nil)
    /\ UNCHANGED <<disk, life, ready, memory, mu, journal, hung, ret, hist,
                   coalesced, tampered, codec>>

OpOf(t) == IF thr[t].op = "Set" THEN OpSet ELSE OpUnset

\* What Set and Unset return when journal.log returned err.
AfterLog(t, err) ==
    IF err = Nil \/ thr[t].op = "Set" THEN Nil ELSE Wrap("journaling", err)

\* journal.log of Set and Unset, the mutex released: the header.
LogHeader(t) ==
    /\ thr[t].pc = "logHeader"
    /\ LET l == logHeader(journal, walFile, OpOf(t), thr[t].key, thr[t].value, TRUE)
       IN /\ journal' = l.j
          /\ walFile' = l.file
          /\ thr' = IF l.err = Nil THEN [thr EXCEPT ![t].pc = "logPayload"]
                    ELSE Return(t, AfterLog(t, l.err))
    /\ UNCHANGED <<dbExists, dbFile, walExists, life, ready, memory, mu, hung, ret,
                   hist, coalesced, tampered, codec>>

\* journal.log of Set and Unset: the payload, and the return of the method.
LogPayload(t) ==
    /\ thr[t].pc = "logPayload"
    /\ LET l == logPayload(journal, walFile, thr[t].key, thr[t].value, TRUE)
       IN /\ journal' = l.j
          /\ walFile' = l.file
          /\ thr' = Return(t, AfterLog(t, l.err))
    /\ UNCHANGED <<dbExists, dbFile, walExists, life, ready, memory, mu, hung, ret,
                   hist, coalesced, tampered, codec>>

\* Flush: kv.journal.bufWriter.Flush(), before the mutex is taken.
FlushWriter(t) ==
    /\ thr[t].pc = "flush"
    /\ LET f == BufFlush(journal.bufWriter, walFile, WriteOk(journal, TRUE))
       IN /\ journal' = [journal EXCEPT !.bufWriter = f.bw]
          /\ walFile' = f.file
          /\ thr' = IF f.err THEN Return(t, <<"flush", "io">>)
                    ELSE [thr EXCEPT ![t].pc = "flushLock"]
    /\ UNCHANGED <<dbExists, dbFile, walExists, life, ready, memory, mu, hung, ret,
                   hist, coalesced, tampered, codec>>

\* Flush: kv.lastFlush written under the mutex.
FlushCritical(t) ==
    /\ thr[t].pc = "flushLock" /\ mu = "free"
    /\ thr' = Return(t, Nil)
    /\ UNCHANGED <<disk, life, ready, memory, mu, journal, hung, ret, hist,
                   coalesced, tampered, codec>>

\* (as CoalesceDump, but dump does not look at kv.ready)
CoalesceDumpUnchecked(t) ==
    /\ thr[t].pc = "coLock" /\ mu = "free"
    /\ dbFile' = dump(memory)
    /\ mu' = "held"
    /\ thr' = [thr EXCEPT ![t].pc = "coTruncate"]
    /\ UNCHANGED <<dbExists, walExists, walFile, life, ready, memory, journal, hung,
                   ret, hist, coalesced, tampered, codec>>

\* Coalesce: kv.mu.Lock(); kv.dump(), which looks at kv.ready again.
CoalesceDump(t) ==
    /\ thr[t].pc = "coLock" /\ mu = "free"
    /\ IF ready
       THEN /\ dbFile' = dump(memory)
            /\ mu' = "held"
            /\ thr' = [thr EXCEPT ![t].pc = "coTruncate"]
       ELSE /\ dbFile' = dbFile
            /\ mu' = mu
            /\ thr' = Return(t, Wrap("dumping memory", ErrNotReady))
    /\ UNCHANGED <<dbExists, walExists, walFile, life, ready, memory, journal, hung,
                   ret, hist, coalesced, tampered, codec>>

\* Coalesce: kv.journal.truncate(), and the deferred kv.mu.Unlock().
CoalesceTruncate(t) ==
    /\ thr[t].pc = "coTruncate"
    /\ LET c == truncate(journal, walFile, TRUE)
       IN /\ journal' = c.j
          /\ walFile' = c.file
          /\ thr' = Return(t, IF c.err # Nil THEN Wrap("truncating journal", c.err)
                              ELSE Nil)
    /\ mu' = "free"
    /\ UNCHANGED <<dbExists, dbFile, walExists, life, ready, memory, hung, ret,
                   hist, coalesced, tampered, codec>>

\* Close: under the mutex, kv.journal.close() and, that done, kv.ready cleared.
CloseCritical(t) ==
    /\ thr[t].pc = "clLock" /\ mu = "free"
    /\ LET c == close(journal, walFile, TRUE)
       IN /\ journal' = c.j
          /\ walFile' = c.file
          /\ ready' = IF c.err = Nil THEN FALSE ELSE ready
          /\ life' = IF c.err = Nil THEN "closed" ELSE life
          /\ thr' = Return(t, IF c.err # Nil THEN Wrap("closing journal", c.err)
                              ELSE Nil)
    /\ UNCHANGED <<dbExists, dbFile, walExists, memory, mu, hung, ret, hist,
                   coalesced, tampered, codec>>

NextConc ==
    \E t \in Threads :
        \/ \E k \in Keys, v \in Values : Begin(t, "Set", k, v)
        \/ \E k \in Keys : Begin(t, "Unset", k, NilValue)
        \/ \E k \in Keys : Begin(t, "Get", k, NilValue)
        \/ \E op \in {"Flush", "Coalesce", "Close"} : Begin(t, op, "", NilValue)
        \/ SetCritical(t)
        \/ UnsetCritical(t)
        \/ GetCritical(t)
        \/ LogHeader(t)
        \/ LogPayload(t)
        \/ FlushWriter(t)
        \/ FlushCritical(t)
        \/ CoalesceDump(t)
        \/ CoalesceTruncate(t)
        \/ CloseCritical(t)

SpecConc == InitConc /\ [][NextConc]_vars

\* ================================================================== claims
\* The bytes of the journal, written to the file or still in the buffer.
JournalBytes == walFile \o journal.bufWriter.buf

\* One record as journal.log frames it.
RecordBytes(op, key, value) ==
    LET buf == GobEncodeTx(key, value)
    IN jEncode(op, U32(Len(buf)), ChecksumIEEE(buf)) \o buf

\* The last journal.log call for key k in h (0: none).
LastIdx(h, k) ==
    LET S == {i \in 1..Len(h) : h[i].key = k}
    IN IF S = {} THEN 0 ELSE CHOOSE i \in S : \A j \in S : j <= i

\* Set(k, v) returned, a Flush returned nil after it, no Set or Unset of k since.
Durable(h, k) ==
    LastIdx(h, k) > 0 /\ h[LastIdx(h, k)].op = OpSet /\ h[LastIdx(h, k)].flushed

\* The first n records of h applied to the map m.
RECURSIVE ApplyPrefix(_, _, _)
ApplyPrefix(m, h, n) ==
    IF n = 0 THEN m
    ELSE LET e == h[n]
             b == ApplyPrefix(m, h, n - 1)
         IN IF e.op = OpSet THEN MapSet(b, e.key, e.value) ELSE MapDelete(b, e.key)

Appended(h) == SelectSeq(h, LAMBDA e : e.ok)

Calls == {"Get", "Set", "Unset", "Flush", "Coalesce", "Close"}

\* C1 (durability): when New is called on the files a store left behind (the
\* store closed, or its process gone), no Coalesce having rewritten the
\* snapshot, it returns a store, and for every key k whose last Set(k, v) was
\* followed by a Flush that returned nil, with no later Set or Unset of k, the
\* map of that store has k with the value v.
C1_Durability ==
    [][(ret'.op = "New" /\ life # "open" /\ ~coalesced /\ ~tampered) =>
        \A k \in Keys : Durable(hist, k) =>
            /\ ret'.ok
            /\ k \in DOMAIN memory'
            /\ memory'[k] = hist[LastIdx(hist, k)].value]_vars

\* C2 (Coalesce idempotence): when Coalesce returns nil, the journal file is
\* empty, the snapshot file decodes to the map that was in memory before the
\* call, and Close followed by New on the two files gives exactly that map.
C2_CoalesceIdempotent ==
    [][(ret'.op = "Coalesce" /\ ready /\ ret'.err = Nil /\ ~ret'.blocked) =>
        /\ walFile' = <<>>
        /\ journal'.bufWriter.buf = <<>>
        /\ loadFromGob(dbFile').err = Nil
        /\ loadFromGob(dbFile').memory = memory
        /\ LET c == close(journal', walFile', TRUE)
               n == New(dbExists', dbFile', walExists', c.file)
           IN c.err = Nil /\ n.ok /\ n.memory = memory]_vars

\* A Coalesce has just returned nil on a store whose map is not empty.
C2_Witness ==
    /\ ret.op = "Coalesce" /\ ret.err = Nil /\ ~ret.blocked /\ life = "open"
    /\ DOMAIN memory = Keys

\* C3 (Unset removes a present key): when Unset(k) returns (true, nil) for a
\* key k that was in the map, k is no longer in the map and exactly one Unset
\* record for k has been appended to the journal.
C3_UnsetRemoves ==
    [][(ret'.op = "Unset" /\ ready /\ ret'.key \in DOMAIN memory
        /\ ret'.ok /\ ret'.err = Nil /\ ~ret'.blocked) =>
        /\ ret'.key \notin DOMAIN memory'
        /\ JournalBytes' = JournalBytes \o RecordBytes(OpUnset, ret'.key, NilValue)]_vars

\* C4 (Unset of an absent key): when Unset(k) returns on a ready store for a
\* key k that is not in the map, it returns (true, nil), and the map, the
\* buffered writer and the journal file are as before the call.
C4_UnsetAbsentFrame ==
    [][(ret'.op = "Unset" /\ ready /\ ret'.key \in Keys
        /\ ret'.key \notin DOMAIN memory /\ ~ret'.blocked) =>
        /\ ret'.ok /\ ret'.err = Nil
        /\ memory' = memory
        /\ journal' = journal
        /\ walFile' = walFile /\ walExists' = walExists]_vars

\* Unset of an absent key has returned on a store whose journal holds a record.
C4_Witness ==
    /\ ret.op = "Unset" /\ ret.key \in Keys /\ ret.key \notin DOMAIN memory
    /\ ret.ok /\ ret.err = Nil /\ ~ret.blocked
    /\ Len(JournalBytes) > 0

\* C5 (readiness gating): once Close has returned nil, every call of Get, Set,
\* Unset, Flush, Coalesce or Close on that store returns ErrNotReady and the
\* map, the journal (buffer and file) and the snapshot file are as before.
C5_NotReadyAfterClose ==
    [][(life = "closed" /\ ret'.op \in Calls) =>
        /\ ret'.err = ErrNotReady
        /\ UNCHANGED <<memory, journal, disk>>]_vars

\* A call has been refused on a closed store that holds data.
C5_Witness ==
    /\ life = "closed" /\ ret.op = "Set" /\ ret.err = ErrNotReady
    /\ DOMAIN memory # {} /\ walFile # <<>>

\* C6 (corruption detection): a payload byte of a record of the journal file
\* having been altered, New returns an error that wraps ErrJournalCorrupt and
\* returns no store.
C6_CorruptionDetected ==
    [][(tampered /\ ret'.op = "New") =>
        /\ ~ret'.ok /\ life' # "open" /\ ~ready'
        /\ Is(ret'.err, ErrJournalCorrupt)]_vars

\* New has failed on a journal whose second record was the altered one.
C6_Witness ==
    /\ tampered /\ ret.op = "New" /\ Is(ret.err, ErrJournalCorrupt)
    /\ \E i \in PayloadBytes(walFile, 0) : i > HeaderLen + 2
    /\ play(SubSeq(walFile, 1, HeaderLen + 2), EmptyMap).err = Nil

\* C7 (crash-safe replay): the process having stopped with the store open,
\* New returns a store whose map is the snapshot with a prefix of the appended
\* records applied in append order.
C7_CrashSafeReplay ==
    [][(life = "crashed" /\ ret'.op = "New" /\ ~tampered) =>
        /\ ret'.ok
        /\ \E n \in 0..Len(Appended(hist)) :
              memory' = ApplyPrefix(loadFromGob(dbFile).memory, Appended(hist), n)]_vars

\* C8 (state invariant): between calls on an open store, none of whose
\* journal appends has failed, the map is the snapshot file with the journal's
\* records (written to the file or still buffered) replayed on it in order.
C8_MemoryIsSnapshotPlusJournal ==
    (life = "open" /\ ready /\ ~hung /\ \A i \in 1..Len(hist) : hist[i].ok) =>
        LET p == play(JournalBytes, loadFromGob(dbFile).memory)
        IN p.err = Nil /\ p.m = memory

\* C9 (Set swallows journal failures): when Set(k, v) returns on a ready store
\* it returns nil and the map has k with v (the mutex free for a Get), whether
\* journal.log failed or not; when journal.log fails in Unset of a present key,
\* Unset returns that error.
C9_SetSwallowsUnsetSurfaces ==
    [][/\ (ret'.op = "Set" /\ ready /\ ~ret'.blocked) =>
            /\ ret'.err = Nil
            /\ ret'.key \in DOMAIN memory' /\ memory'[ret'.key] = ret'.value
            /\ mu' = "free" /\ ready'
       /\ (ret'.op = "Unset" /\ ready /\ ~ret'.blocked
           /\ ret'.key \in DOMAIN memory /\ ret'.logged # Nil) =>
            /\ ret'.err # Nil
            /\ \E i \in 1..Len(ret'.err) :
                  SubSeq(ret'.err, i, Len(ret'.err)) = ret'.logged]_vars

\* A Set has returned nil although journal.log failed, and the map has the value.
C9_Witness ==
    /\ ret.op = "Set" /\ ret.err = Nil /\ ret.logged # Nil /\ ~ret.blocked
    /\ ret.key \in DOMAIN memory /\ memory[ret.key] = ret.value

\* C10 (frame codec round trip): jEncode gives exactly 9 bytes for every
\* operation tag and every 32-bit length and checksum; jDecode of those bytes
\* gives the tag, the length and the checksum back with no error; jDecode of
\* a slice that is not 9 bytes long returns an error.
C10_CodecRoundTrip ==
    /\ codec.pc \in {"encoded", "decoded"} => Len(codec.buf) = 9
    /\ codec.pc = "decoded" =>
          /\ ~codec.out.err
          /\ codec.out.op = codec.op
          /\ codec.out.length = codec.length
          /\ codec.out.crc = codec.crc
    /\ (codec.pc = "raw" /\ Len(codec.buf) # 9) => codec.out.err

\* The header of the test, jEncode(OpSet, 42, 2424), has been decoded.
C10_Witness ==
    /\ codec.pc = "decoded" /\ codec.op = OpSet
    /\ codec.length = U32(42) /\ codec.crc = U32(2424)
    /\ ~codec.out.err /\ codec.out.length = U32(42)

\* The goroutine t is inside an operation on the journal handle: it has
\* written the header of a record and not yet its payload, or it is in
\* Coalesce between the dump and the end of the truncate.
InJournal(t) == thr[t].pc \in {"logPayload", "coTruncate"}

\* C11 (mutual exclusion on the journal handle): at no time are two
\* goroutines inside an operation on the journal's buffered writer or file
\* handle, and none is inside an append while Coalesce is between its dump
\* and the end of its truncate.
C11_JournalMutex == Cardinality({t \in Threads : InJournal(t)}) <= 1

\* C12 (a closed journal is terminal): once Close has returned nil, no step
\* of a call that had passed its readiness check writes, truncates or
\* recreates the journal file, reopens the journal or rewrites the snapshot.
C12_ClosedIsTerminal ==
    [][life = "closed" =>
        /\ walFile' = walFile /\ walExists' = walExists
        /\ journal'.fh = "closed"
        /\ dbFile' = dbFile /\ dbExists' = dbExists]_vars

\* A Coalesce that had passed its readiness check before Close returned nil
\* has come back from dump with ErrNotReady.
C12_Witness ==
    /\ life = "closed"
    /\ \E t \in Threads :
          /\ thr[t].pc = "idle" /\ thr[t].op = "Coalesce"
          /\ thr[t].err = Wrap("dumping memory", ErrNotReady)

\* The records of the calls h as journal.log frames them, in order.
RECURSIVE HistBytes(_)
HistBytes(h) ==
    IF h = <<>> THEN <<>>
    ELSE RecordBytes(Head(h).op, Head(h).key, Head(h).value) \o HistBytes(Tail(h))

\* C13 (replay of a stale journal): when Coalesce has dumped the map and the
\* journal has not been truncated (truncate failed, or the process stopped
\* before it), the journal file holding the records appended since the last
\* New, then New on the two files gives the map that was in memory.
C13_StaleReplayIdempotent ==
    [][(/\ \/ ret'.op = "Coalesce" /\ ready /\ ~ret'.blocked /\ ret'.err # Nil
           \/ ret'.op = "CoalesceCrash" /\ ret'.key = "dumped"
        /\ ~coalesced /\ ~tampered
        /\ walFile' = HistBytes(hist)) =>
        LET n == New(dbExists', dbFile', walExists', walFile')
        IN n.ok /\ n.memory = memory]_vars

\* C14 (readiness-check race): a Set that passed the readiness check before a
\* Close returned nil, and takes the mutex after it, still writes the map,
\* appends to the closed journal without a byte reaching the journal file,
\* and returns nil.
C14_SetRacesClose ==
    [][\A t \in Threads :
        /\ (thr[t].pc = "setLock" /\ thr'[t] # thr[t] /\ life = "closed") =>
              /\ thr'[t].pc = "logHeader"
              /\ thr[t].key \in DOMAIN memory'
              /\ memory'[thr[t].key] = thr[t].value
        /\ (thr[t].pc \in {"logHeader", "logPayload"} /\ thr'[t] # thr[t]
            /\ thr[t].op = "Set" /\ thr[t].late) =>
              /\ walFile' = walFile /\ journal'.fh = "closed"
              /\ thr'[t].pc = "idle" => thr'[t].err = Nil]_vars

\* Such a Set has returned nil: the map has its value, the journal file has
\* no record at all.
C14_Witness ==
    \E t \in Threads :
        /\ thr[t].pc = "idle" /\ thr[t].op = "Set" /\ thr[t].late
        /\ thr[t].err = Nil /\ life = "closed" /\ ~ready
        /\ thr[t].key \in DOMAIN memory /\ memory[thr[t].key] = thr[t].value
        /\ walFile = <<>> /\ journal.bufWriter.buf # <<>>

\* C15 (no call returns with the mutex held): between the calls made one
\* after the other on an open store the mutex is free, so that no call
\* blocks for good in kv.mu.Lock().
C15_NoLockLeak == (life = "open" /\ ready) => (mu = "free" /\ ~hung)

\* The key k has a value that is on the files of the closed store: New found
\* it there (or a Coalesce wrote it there) and no Set or Unset of k was called
\* since, or its last Set was followed by a Flush that returned nil.
OnFiles(k) ==
    \/ LastIdx(hist, k) = 0 /\ k \in DOMAIN memory
    \/ Durable(hist, k)

\* C16 (durability across repeated restarts): every New on the files of a
\* store that was closed returns a store, and a key whose value was on the
\* files (flushed in that store's time, or recovered by the New that made
\* that store) has that value in the map of the new store.
C16_DurableAcrossRestarts ==
    [][(life = "closed" /\ ret'.op = "New" /\ ~tampered /\ ~coalesced) =>
        \A k \in Keys : OnFiles(k) =>
            /\ ret'.ok
            /\ k \in DOMAIN memory'
            /\ memory'[k] = memory[k]]_vars

\* Every goroutine has made one call, a Set, and has returned from it.
OneSetEach ==
    \A t \in Threads : thr[t].pc = "idle" /\ thr[t].op = "Set" /\ thr[t].n = 1

\* C17 (journal order agrees with memory order): when concurrent Sets have
\* all returned, the snapshot with the journal (file and buffer, its records
\* whole) replayed on it gives each key the value the map holds.
C17_JournalOrderIsMemoryOrder ==
    LET p == play(JournalBytes, loadFromGob(dbFile).memory)
    IN (OneSetEach /\ life = "open" /\ p.err = Nil) =>
           \A k \in DOMAIN memory : k \in DOMAIN p.m /\ p.m[k] = memory[k]

\* No goroutine is between the header and the payload of a record.
NoAppendUnderWay == \A t \in Threads : thr[t].pc # "logPayload"

\* C18 (framing under concurrency): Set, Unset and Coalesce being called
\* concurrently on an open store, the bytes appended to the journal (file and
\* buffer), when no append is under way, are whole records, each header
\* followed by its own payload, and their replay does not fail.
C18_FramingPreserved ==
    (life = "open" /\ NoAppendUnderWay
     /\ \A t \in Threads : thr[t].op \in {"none", "Set", "Unset", "Coalesce"}) =>
        play(JournalBytes, EmptyMap).err = Nil

\* C19 (a failed New leaves the files): when New returns an error, the
\* journal file is as it was before the call, and so is the snapshot file if
\* there was one.
C19_FailedOpenKeepsJournal ==
    [][(ret'.op = "New" /\ ~ret'.ok) =>
        /\ walFile' = walFile /\ walExists' = walExists
        /\ dbExists => (dbExists' /\ dbFile' = dbFile)]_vars

\* New has failed in the replay of a journal file that holds a whole record.
C19_Witness ==
    /\ ret.op = "New" /\ ~ret.ok /\ life # "open"
    /\ Len(ret.err) > 2 /\ SubSeq(ret.err, 1, 2) = <<"creating journal", "play">>
    /\ Len(walFile) > HeaderLen + 2 /\ dbExists

\* C20 (Coalesce is crash-atomic): when the process stops inside Coalesce,
\* New on the two files returns a store, and every key that New on the files
\* as they were before Coalesce would have recovered is in its map, with
\* that value or with the value the map held when Coalesce ran.
C20_CoalesceCrashAtomic ==
    [][ret'.op = "CoalesceCrash" =>
        LET before == New(dbExists, dbFile, walExists, walFile)
            after == New(dbExists', dbFile', walExists', walFile')
        IN before.ok =>
              /\ after.ok
              /\ \A k \in DOMAIN before.memory :
                    /\ k \in DOMAIN after.memory
                    /\ \/ after.memory[k] = before.memory[k]
                       \/ k \in DOMAIN memory /\ after.memory[k] = memory[k]]_vars

====
